---- MODULE Spec2Model ----
(***************************************************************************)
(* A model of gospider: the URL queue (spider/queue.go), the link policy   *)
(* (spider/urls.go), the worker pool                                       *)
(* (spider/internal/concurrency/workerpool.go) and the spider's Run and    *)
(* work (spider/spider.go, the current Spider from line 199 on).           *)
(*                                                                         *)
(* A Go panic that nothing recovers ends the process: it is the variable   *)
(* panicked leaving "none", after which no action is enabled.              *)
(***************************************************************************)
EXTENDS Integers, Sequences, FiniteSets, Bags, TLC

\* ------------------------------------------------------------------ bounds

\* The largest number of workers (Spider.concurrency) a run is started with.
NumWorkers == 2

\* The number of goroutines calling the queue's methods concurrently, and the
\* number of calls they make in all, when the queue is checked on its own.
NumCallers == 2
MaxCalls == 4

\* ------------------------------------------------------------- URLs, links

\* A URL is [host, path], both sequences of characters; a relative
\* reference has the empty host.  url.URL.String() joins them (the scheme is
\* the same everywhere and left out).
String(u) == u.host \o u.path

Hostname(u) == u.host

\* strings.HasSuffix
HasSuffix(s, suffix) ==
    /\ Len(s) >= Len(suffix)
    /\ SubSeq(s, Len(s) - Len(suffix) + 1, Len(s)) = suffix

\* The directory part of a base path: everything up to its last "/"
\* (base[:strings.LastIndex(base, "/")+1]), nothing when it has none.
RECURSIVE BaseDir(_)
BaseDir(p) ==
    IF p = <<>> THEN <<>>
    ELSE IF p[Len(p)] = "/" THEN p
    ELSE BaseDir(SubSeq(p, 1, Len(p) - 1))

\* The elements of a path between its "/" (the strings.Cut loop of
\* net/url's resolvePath).
RECURSIVE PathElems(_)
PathElems(p) ==
    IF \A i \in 1..Len(p) : p[i] # "/" THEN << p >>
    ELSE LET i == CHOOSE i \in 1..Len(p) :
                      p[i] = "/" /\ \A j \in 1..(i - 1) : p[j] # "/"
         IN << SubSeq(p, 1, i - 1) >> \o PathElems(SubSeq(p, i + 1, Len(p)))

\* strings.LastIndexByte(str, '/') counted from 1; 0 when there is none.
LastSlash(str) ==
    IF \A i \in 1..Len(str) : str[i] # "/" THEN 0
    ELSE CHOOSE i \in 1..Len(str) :
             str[i] = "/" /\ \A j \in (i + 1)..Len(str) : str[j] # "/"

\* The loop of net/url's resolvePath (RFC 3986, 5.2.4): "." is dropped,
\* ".." removes the last element written, any other element is written
\* after a "/" unless it is the first.
RECURSIVE removeDotSegments(_, _, _)
removeDotSegments(elems, dst, first) ==
    IF elems = <<>> THEN dst
    ELSE LET elem == Head(elems)
             str == Tail(dst)
         IN IF elem = <<".">>
            THEN removeDotSegments(Tail(elems), dst, FALSE)
            ELSE IF elem = <<".", ".">>
            THEN IF LastSlash(str) = 0
                 THEN removeDotSegments(Tail(elems), <<"/">>, TRUE)
                 ELSE removeDotSegments(Tail(elems),
                          <<"/">> \o SubSeq(str, 1, LastSlash(str) - 1), first)
            ELSE removeDotSegments(Tail(elems),
                     dst \o (IF first THEN <<>> ELSE <<"/">>) \o elem, FALSE)

\* net/url's resolvePath: the reference path merged with the base path (a
\* rooted one is kept, an unrooted one follows the base path's directory,
\* the empty one is the base path), then without its dot segments.
resolvePath(base, ref) ==
    LET full == IF ref = <<>> THEN base
                ELSE IF Head(ref) = "/" THEN ref
                ELSE BaseDir(base) \o ref
        elems == PathElems(full)
        dst == removeDotSegments(elems, <<"/">>, TRUE)
        r == IF elems[Len(elems)] \in {<<".">>, <<".", ".">>}
             THEN dst \o <<"/">> ELSE dst
    IN IF full = <<>> THEN <<>>
       ELSE IF Len(r) > 1 /\ r[2] = "/" THEN Tail(r) ELSE r

\* url.URL.ResolveReference: an absolute reference keeps its host and a
\* relative one takes the base's; the path is resolved by resolvePath.
ResolveReference(base, ref) ==
    IF ref.host # <<>>
    THEN [host |-> ref.host, path |-> resolvePath(ref.path, <<>>)]
    ELSE [host |-> base.host, path |-> resolvePath(base.path, ref.path)]

\* createAbsoluteTransformer(root)
asAbsolute(root, input) == ResolveReference(root, input)

\* The elements a loop ranges over (urls.go:23, 56).
Elements(urls) == {urls[i] : i \in 1..Len(urls)}

\* mapURLs; the transform is a function on the elements.
mapURLs(f, urls) == [i \in 1..Len(urls) |-> f[urls[i]]]

\* filter: the elements the predicate holds of, in order; the predicate is
\* a function on the elements.
RECURSIVE filter(_, _)
filter(predicate, urls) ==
    IF urls = <<>> THEN <<>>
    ELSE (IF predicate[Head(urls)] THEN <<Head(urls)>> ELSE <<>>)
         \o filter(predicate, Tail(urls))

\* A mutated predicate that matches on the suffix of the host whether or
\* not subdomains are followed.
onlyInternalSuffix(root, followSubdomains, input) ==
    HasSuffix(Hostname(input), Hostname(root))

\* createIsInternalPredicate(root, followSubdomains)
onlyInternal(root, followSubdomains, input) ==
    IF followSubdomains
    THEN HasSuffix(Hostname(input), Hostname(root))
    ELSE Hostname(input) = Hostname(root)

\* ------------------------------------------------------------ the URL queue

\* A queue item is a *url.URL: the URL it points to and the pointer itself
\* (ptr), which tells two parsed copies of one link apart.

\* newURLQueue
newURLQueue == [urls |-> <<>>, seen |-> {}]

\* urlQueue.HasItems
HasItems(q) == Len(q.urls) > 0

\* urlQueue.Seen: the key is item.String().
Seen(q, item) == String(item.url) \in q.seen

\* A mutated Append that forgets to record the item as seen.
AppendNoSeen(q, item) == [q EXCEPT !.urls = Append(q.urls, item)]

\* urlQueue.Append, under the write lock.
QueueAppend(q, item) ==
    [urls |-> Append(q.urls, item),
     seen |-> q.seen \cup {String(item.url)}]

\* urlQueue.Next indexes q.urls[len(q.urls)-1] with no check of the length:
\* on an empty queue the index is -1 and the runtime panics.
NextPanics(q) == Len(q.urls) - 1 < 0

\* A mutated Next that returns the first item (a FIFO queue).
NextFirst(q) == q.urls[1]

\* urlQueue.Next, the item returned: the last one.
NextItem(q) == q.urls[Len(q.urls)]

\* urlQueue.Next, the queue left: q.urls[:len(q.urls)-1], seen untouched.
NextRest(q) == [q EXCEPT !.urls = SubSeq(q.urls, 1, Len(q.urls) - 1)]

\* createNotSeenPredicate(seener)
notSeen(q, input) == ~Seen(q, input)

\* ------------------------------------------------------------ the web sites

RootHost == <<"e", "x">>
SubHost == <<"b", ".", "e", "x">>
LookalikeHost == <<"n", "e", "x">>
ExternalHost == <<"o">>

URL(h, p) == [host |-> h, path |-> p]

\* Spider.rootURL, "http://ex"
rootURL == URL(RootHost, <<>>)

NoPage == [Links |-> <<>>, Assets |-> <<>>]

\* The pages of each site the model crawls, by URL string: what
\* parser.ByToken returns for the body the requester fetched.
Site(name) ==
    CASE name = "single" ->
           (String(rootURL) :> [Links |-> <<>>, Assets |-> <<"i">>])
      [] name = "dup" ->
           (String(rootURL) :>
              [Links |-> << URL(<<>>, <<"/", "a">>), URL(<<>>, <<"/", "a">>),
                            URL(ExternalHost, <<"/", "x">>) >>,
               Assets |-> <<>>])
      [] name = "share" ->
           (String(rootURL) :>
              [Links |-> << URL(<<>>, <<"/", "a">>), URL(<<>>, <<"/", "b">>) >>,
               Assets |-> <<>>])
           @@ (String(URL(RootHost, <<"/", "a">>)) :>
              [Links |-> << URL(<<>>, <<".", "/", "b">>) >>, Assets |-> <<>>])
      [] name = "two" ->
           (String(rootURL) :>
              [Links |-> << URL(<<>>, <<"/", "a">>), URL(<<>>, <<"/", "b">>) >>,
               Assets |-> <<>>])
      [] name = "mixed" ->
           (String(rootURL) :>
              [Links |-> << URL(<<>>, <<"a">>), URL(RootHost, <<"/", "b">>),
                            URL(SubHost, <<>>), URL(ExternalHost, <<>>) >>,
               Assets |-> <<>>])
      [] name = "hosts" ->
           (String(rootURL) :>
              [Links |-> << URL(SubHost, <<>>), URL(LookalikeHost, <<>>),
                            URL(ExternalHost, <<>>) >>,
               Assets |-> <<>>])

Page(name, u) ==
    IF String(u) \in DOMAIN Site(name) THEN Site(name)[String(u)] ELSE NoPage

\* The configurations a run starts from: the site, Spider.followSubdomains
\* and Spider.ignoreRobots.
Scenarios ==
    { [site |-> "single", followSubdomains |-> FALSE, ignoreRobots |-> FALSE],
      [site |-> "dup",    followSubdomains |-> FALSE, ignoreRobots |-> TRUE],
      [site |-> "share",  followSubdomains |-> FALSE, ignoreRobots |-> TRUE],
      [site |-> "two",    followSubdomains |-> FALSE, ignoreRobots |-> TRUE],
      [site |-> "mixed",  followSubdomains |-> FALSE, ignoreRobots |-> TRUE],
      [site |-> "hosts",  followSubdomains |-> TRUE,  ignoreRobots |-> TRUE] }

\* ------------------------------------------------------------------- state

VARIABLES
    scenario,     \* the run's configuration, one of Scenarios
    concurrency,  \* Spider.concurrency = WorkerPool.numWorkers
    queue,        \* Spider.queue: [urls, seen]
    wg,           \* Spider.wg, the completion counter
    sitemap,      \* reporter.HTML.sitemap: item -> [Links, Assets]
    robots,       \* Spider.robots
    robotsTxt,    \* history: the outcomes of the requests for /robots.txt
    run,          \* the caller of Spider.Run: [pc, ret]
    state,        \* WorkerPool.state
    stateLock,    \* WorkerPool.stateLock: "free" or its holder
    jobs,         \* WorkerPool.jobs: [n, closed]
    results,      \* WorkerPool.results: [n, closed]
    errorsClosed, \* whether WorkerPool.errors (unbuffered) is closed
    done,         \* whether WorkerPool.done is closed
    waitGroup,    \* WorkerPool.waitGroup
    start,        \* the goroutine of WorkerPool.Start: [pc, i, err, ret]
    drain,        \* the goroutine draining errors (workerpool.go:93)
    worker,       \* the goroutines of runWorker: [pc, next, links, i, toAdd, err]
    panicked,     \* "none", or the panic that ended the process
    admitted,     \* history: the bag of the items ever appended to the queue
    popped,       \* history: the bag of the items Next has returned
    fetched,      \* history: the bag of the URLs requested by work
    workErrors,   \* history: the errors Spider.work has returned
    caller,       \* the goroutines calling the queue alone: [pc, op, item, rest, ret]
    mutex,        \* urlQueue's RWMutex as those callers take it: [writer, readers]
    calls         \* the number of calls those callers have made

vars == << scenario, concurrency, queue, wg, sitemap, robots, robotsTxt, run, state,
           stateLock, jobs, results, errorsClosed, done, waitGroup, start,
           drain, worker, panicked, admitted, popped, fetched, workErrors,
           caller, mutex, calls >>

config == << scenario, concurrency, caller, mutex, calls >>
spiderVars == << queue, wg, sitemap, robots, robotsTxt, admitted, popped, fetched,
                 workErrors >>
poolVars == << state, stateLock, jobs, results, errorsClosed, done, waitGroup,
               start, drain >>

\* The goroutines that can run runWorker; Start spawns the first
\* numWorkers of them.
Workers == 1..NumWorkers
Callers == 1..NumCallers

\* error values
nil == "nil"
Stopped == "stopped"
errRequest == "request error"
errRobots == "robots error"
errUnexpectedStatus == "Unexpected status"
errParse == "robots parse error"
AnError == "assert.AnError"
errRetryable == "retryable error"

\* Retryable: only a RetryableError answers true.
Retryable(err) == err = errRetryable

NoItem == [url |-> URL(<<>>, <<>>), ptr |-> <<0>>]
rootItem == [url |-> rootURL, ptr |-> <<>>]

idleWorker(pc) ==
    [pc |-> pc, next |-> NoItem, links |-> <<>>, i |-> 0, toAdd |-> <<>>,
     err |-> nil]

idleCaller ==
    [pc |-> "idle", op |-> "", item |-> NoItem, rest |-> <<>>, ret |-> FALSE]

\* New and NewWorkerPool: the state after construction.
Constructed ==
    /\ queue = newURLQueue
    /\ wg = 0
    /\ sitemap = <<>>
    /\ robots = nil
    /\ robotsTxt = <<>>
    /\ state = "stopped"
    /\ stateLock = "free"
    /\ jobs = [n |-> 0, closed |-> FALSE]
    /\ results = [n |-> 0, closed |-> FALSE]
    /\ errorsClosed = FALSE
    /\ done = FALSE
    /\ waitGroup = 0
    /\ start = [pc |-> "off", i |-> 0, err |-> nil, ret |-> nil]
    /\ drain = "off"
    /\ worker = [w \in Workers |-> idleWorker("off")]
    /\ panicked = "none"
    /\ admitted = EmptyBag
    /\ popped = EmptyBag
    /\ fetched = EmptyBag
    /\ workErrors = {}
    /\ caller = [c \in Callers |-> idleCaller]
    /\ mutex = [writer |-> 0, readers |-> {}]
    /\ calls = 0

\* A run of the spider, for every scenario and every concurrency from 1 to
\* NumWorkers.
Init ==
    /\ scenario \in Scenarios
    /\ concurrency \in 1..NumWorkers
    /\ Constructed
    /\ run = [pc |-> "robots", ret |-> nil]

\* The process runs until a panic ends it.
Running == panicked = "none"

Panic(what) ==
    /\ panicked' = what
    /\ UNCHANGED << config, queue, wg, sitemap, robots, robotsTxt, run,
                    state, stateLock, jobs, results, errorsClosed, done,
                    waitGroup, start, drain, worker, admitted, popped,
                    fetched, workErrors >>

\* ------------------------------------------------------------ Spider.Run

\* The results of the request for /robots.txt (spider.go:403): status 200
\* with a body the robots.txt parser accepts or with one it rejects, a
\* status other than 200 by its class (the client returns it as an
\* httpResponseError with no body), or an error of the transport.
RobotsOutcomes ==
    {"200", "200 malformed", "2xx", "3xx", "4xx", "5xx", "transport"}

\* A mutated readRobotsData that returns every error of the request, an
\* HTTP status included.
readRobotsDataStrict(outcome) ==
    CASE outcome = "200" -> [robots |-> "rules", err |-> nil]
      [] outcome = "200 malformed" -> [robots |-> nil, err |-> errParse]
      [] OTHER -> [robots |-> nil, err |-> errRobots]

\* Spider.readRobotsData: [robots, err] for each outcome of the request.
\* robotstxt.FromBytes (spider.go:411) returns the rules of the body or the
\* parser's error.  robotstxt.FromStatusAndBytes (spider.go:406) goes by
\* the class of the status: 2xx is FromBytes of the body, here empty, which
\* allows everything; 4xx allows everything; 5xx disallows everything; any
\* other status is an error.  Another error of the request is returned as
\* it is (spider.go:408).
readRobotsData(outcome) ==
    CASE outcome = "200" -> [robots |-> "rules", err |-> nil]
      [] outcome = "200 malformed" -> [robots |-> nil, err |-> errParse]
      [] outcome = "2xx" -> [robots |-> "allowAll", err |-> nil]
      [] outcome = "3xx" -> [robots |-> nil, err |-> errUnexpectedStatus]
      [] outcome = "4xx" -> [robots |-> "allowAll", err |-> nil]
      [] outcome = "5xx" -> [robots |-> "disallowAll", err |-> nil]
      [] OTHER -> [robots |-> nil, err |-> errRobots]

\* A mutated Run that reads robots.txt whether or not it is to be ignored.
RunRobotsAlways ==
    /\ Running
    /\ run.pc = "robots"
    /\ \E outcome \in RobotsOutcomes :
          LET r == readRobotsData(outcome) IN
          /\ robotsTxt' = Append(robotsTxt, outcome)
          /\ IF r.err # nil
             THEN /\ run' = [pc |-> "returned", ret |-> r.err]
                  /\ UNCHANGED robots
             ELSE /\ robots' = r.robots
                  /\ run' = [run EXCEPT !.pc = "Append"]
    /\ UNCHANGED << config, queue, wg, sitemap, poolVars,
                    worker, panicked, admitted, popped, fetched, workErrors >>

\* A mutated Run that keeps the error of readRobotsData and goes on to
\* admit the root and to start the pool.
RunRobotsGoesOn ==
    /\ Running
    /\ run.pc = "robots"
    /\ IF robots = nil /\ ~scenario.ignoreRobots
       THEN \E outcome \in RobotsOutcomes :
              LET r == readRobotsData(outcome) IN
              /\ run' = [pc |-> "Append", ret |-> r.err]
              /\ robots' = r.robots
              /\ robotsTxt' = Append(robotsTxt, outcome)
       ELSE /\ run' = [run EXCEPT !.pc = "Append"]
            /\ UNCHANGED << robots, robotsTxt >>
    /\ UNCHANGED << config, queue, wg, sitemap, poolVars,
                    worker, panicked, admitted, popped, fetched, workErrors >>

\* spider.go:322-328
RunRobots ==
    /\ Running
    /\ run.pc = "robots"
    /\ IF robots = nil /\ ~scenario.ignoreRobots
       THEN \E outcome \in RobotsOutcomes :
              LET r == readRobotsData(outcome) IN
              /\ robotsTxt' = Append(robotsTxt, outcome)
              /\ IF r.err # nil
                 THEN /\ run' = [pc |-> "returned", ret |-> r.err]
                      /\ UNCHANGED robots
                 ELSE /\ robots' = r.robots
                      /\ run' = [run EXCEPT !.pc = "Append"]
       ELSE /\ run' = [run EXCEPT !.pc = "Append"]
            /\ UNCHANGED << robots, robotsTxt >>
    /\ UNCHANGED << config, queue, wg, sitemap, poolVars,
                    worker, panicked, admitted, popped, fetched, workErrors >>

\* spider.go:331
RunAppend ==
    /\ Running
    /\ run.pc = "Append"
    /\ queue' = QueueAppend(queue, rootItem)
    /\ admitted' = admitted (+) SetToBag({rootItem})
    /\ run' = [run EXCEPT !.pc = "Add"]
    /\ UNCHANGED << config, wg, sitemap, robots, robotsTxt, poolVars,
                    worker, panicked, popped, fetched, workErrors >>

\* spider.go:332
RunAdd ==
    /\ Running
    /\ run.pc = "Add"
    /\ wg' = wg + 1
    /\ run' = [run EXCEPT !.pc = "go"]
    /\ UNCHANGED << config, queue, sitemap, robots, robotsTxt, poolVars,
                    worker, panicked, admitted, popped, fetched, workErrors >>

\* spider.go:334-335: NewWorkerPool, go pool.Start()
RunGo ==
    /\ Running
    /\ run.pc = "go"
    /\ start' = [start EXCEPT !.pc = "Lock"]
    /\ run' = [run EXCEPT !.pc = "Wait"]
    /\ UNCHANGED << config, spiderVars, state, stateLock, jobs,
                    results, errorsClosed, done, waitGroup, drain, worker,
                    panicked >>

\* spider.go:338: s.wg.Wait() reads the counter; it returns at once when
\* the counter is zero and otherwise registers as a waiter and sleeps.
RunWait ==
    /\ Running
    /\ run.pc = "Wait"
    /\ run' = [run EXCEPT !.pc = IF wg = 0 THEN "StopWait" ELSE "asleep"]
    /\ UNCHANGED << config, spiderVars, poolVars, worker,
                    panicked >>

\* spider.go:338: the Wait a Done released at zero re-reads the WaitGroup.
\* It returns when the counter is still zero; when an Add has raised the
\* counter in between, sync.WaitGroup panics.
RunWoken ==
    /\ Running
    /\ run.pc = "woken"
    /\ IF wg = 0
       THEN /\ run' = [run EXCEPT !.pc = "StopWait"]
            /\ UNCHANGED << config, spiderVars, poolVars, worker, panicked >>
       ELSE Panic("WaitGroup is reused before previous Wait has returned")

\* workerpool.go:162, called at spider.go:339
StopWaitLock ==
    /\ Running
    /\ run.pc = "StopWait"
    /\ stateLock = "free"
    /\ stateLock' = "StopWait"
    /\ run' = [run EXCEPT !.pc = "check"]
    /\ UNCHANGED << config, spiderVars, state, jobs, results,
                    errorsClosed, done, waitGroup, start, drain, worker,
                    panicked >>

\* workerpool.go:164: Stop() only when the state read is running.
StopWaitCheck ==
    /\ Running
    /\ run.pc = "check"
    /\ run' = [run EXCEPT !.pc = IF state = "running" THEN "Stop" ELSE "done"]
    /\ UNCHANGED << config, spiderVars, poolVars, worker,
                    panicked >>

\* A mutated StopWait that returns without the receive from done.
StopWaitNoWait ==
    /\ Running
    /\ run.pc = "done"
    /\ stateLock' = "free"
    /\ run' = [pc |-> "returned", ret |-> nil]
    /\ UNCHANGED << config, spiderVars, state, jobs, results,
                    errorsClosed, done, waitGroup, start, drain, worker,
                    panicked >>

\* workerpool.go:167 and 163 (the deferred Unlock), then spider.go:340.
StopWaitDone ==
    /\ Running
    /\ run.pc = "done"
    /\ done
    /\ stateLock' = "free"
    /\ run' = [pc |-> "returned", ret |-> nil]
    /\ UNCHANGED << config, spiderVars, state, jobs, results,
                    errorsClosed, done, waitGroup, start, drain, worker,
                    panicked >>

\* ------------------------------------------------- the errors channel

\* errors is unbuffered: a send completes together with a receive.  The
\* goroutines blocked in a send: the workers at workerpool.go:142 and the
\* caller of Stop at workerpool.go:150 (sender 0).
Senders ==
    {w \in Workers : worker[w].pc = "errors"}
        \cup (IF run.pc = "Stop" THEN {0} ELSE {})

Sending(s) == IF s = 0 THEN Stopped ELSE worker[s].err

\* The sender's send has completed: Stop returns into StopWait, a worker
\* goes round its loop (there is no break after workerpool.go:142); its
\* err keeps the error it has sent until Work returns again.
Sent(s) ==
    IF s = 0
    THEN /\ run' = [run EXCEPT !.pc = "done"]
         /\ UNCHANGED worker
    ELSE /\ worker' = [worker EXCEPT ![s] =
                [idleWorker("range") EXCEPT !.err = worker[s].err]]
         /\ UNCHANGED run

\* A send on the closed errors channel panics.
SendOnClosed ==
    /\ Running
    /\ errorsClosed
    /\ \/ Senders # {}
       \/ \E c \in Callers : caller[c].op = "StopWait" /\ caller[c].pc = "Stop"
    /\ Panic("send on closed channel")

\* ------------------------------------------------------ WorkerPool.Start

\* workerpool.go:67-69: Lock, the state set to running, Unlock.
StartLock ==
    /\ Running
    /\ start.pc = "Lock"
    /\ stateLock = "free"
    /\ state' = "running"
    /\ start' = [start EXCEPT !.pc = "Add"]
    /\ UNCHANGED << config, spiderVars, run, stateLock, jobs,
                    results, errorsClosed, done, waitGroup, drain, worker,
                    panicked >>

\* workerpool.go:72: s.waitGroup.Add(s.numWorkers), after the Unlock.
StartAdd ==
    /\ Running
    /\ start.pc = "Add"
    /\ waitGroup' = waitGroup + concurrency
    /\ start' = [start EXCEPT !.pc = "spawn", !.i = 0]
    /\ UNCHANGED << config, spiderVars, run, state, stateLock, jobs,
                    results, errorsClosed, done, drain, worker, panicked >>

\* A mutated loop that creates a worker for every goroutine there could
\* be, whatever numWorkers is.
StartSpawnAll ==
    /\ Running
    /\ start.pc = "spawn"
    /\ start.i < NumWorkers
    /\ jobs.n < concurrency
    /\ jobs' = [jobs EXCEPT !.n = @ + 1]
    /\ worker' = [worker EXCEPT ![start.i + 1] = idleWorker("range")]
    /\ start' = [start EXCEPT !.i = @ + 1,
                              !.pc = IF start.i + 1 < NumWorkers
                                     THEN "spawn" ELSE "select"]
    /\ UNCHANGED << config, spiderVars, run, state, stateLock,
                    results, errorsClosed, done, waitGroup, drain, panicked >>

\* workerpool.go:73-77, one iteration: a job, then go s.runWorker().
StartSpawn ==
    /\ Running
    /\ start.pc = "spawn"
    /\ start.i < concurrency
    /\ jobs.n < concurrency
    /\ jobs' = [jobs EXCEPT !.n = @ + 1]
    /\ worker' = [worker EXCEPT ![start.i + 1] = idleWorker("range")]
    /\ start' = [start EXCEPT !.i = @ + 1,
                              !.pc = IF start.i + 1 < concurrency
                                     THEN "spawn" ELSE "select"]
    /\ UNCHANGED << config, spiderVars, run, state, stateLock,
                    results, errorsClosed, done, waitGroup, drain, panicked >>

\* workerpool.go:106
StartResult ==
    /\ Running
    /\ start.pc = "select"
    /\ results.n > 0
    /\ results' = [results EXCEPT !.n = @ - 1]
    /\ start' = [start EXCEPT !.pc = "jobs"]
    /\ UNCHANGED << config, spiderVars, run, state, stateLock,
                    jobs, errorsClosed, done, waitGroup, drain, worker,
                    panicked >>

\* A mutated Start that issues two tokens for a result.
StartJobTwo ==
    /\ Running
    /\ start.pc = "jobs"
    /\ jobs.n < concurrency
    /\ jobs' = [jobs EXCEPT !.n = @ + 2]
    /\ start' = [start EXCEPT !.pc = "select"]
    /\ UNCHANGED << config, spiderVars, run, state, stateLock,
                    results, errorsClosed, done, waitGroup, drain, worker,
                    panicked >>

\* workerpool.go:109: the send blocks while jobs is full.
StartJob ==
    /\ Running
    /\ start.pc = "jobs"
    /\ jobs.n < concurrency
    /\ jobs' = [jobs EXCEPT !.n = @ + 1]
    /\ start' = [start EXCEPT !.pc = "select"]
    /\ UNCHANGED << config, spiderVars, run, state, stateLock,
                    results, errorsClosed, done, waitGroup, drain, worker,
                    panicked >>

\* workerpool.go:81-82: an error (or Stopped) is received; the state is
\* written without the lock.
StartError ==
    /\ Running
    /\ start.pc = "select"
    /\ \E s \in Senders :
         /\ start' = [start EXCEPT !.pc = "close jobs", !.err = Sending(s)]
         /\ Sent(s)
    /\ state' = "stopping"
    /\ UNCHANGED << config, spiderVars, stateLock, jobs,
                    results, errorsClosed, done, waitGroup, drain, panicked >>

\* workerpool.go:90-97: close(s.jobs), then the goroutine draining errors.
StartCloseJobs ==
    /\ Running
    /\ start.pc = "close jobs"
    /\ jobs' = [jobs EXCEPT !.closed = TRUE]
    /\ drain' = "range"
    /\ start' = [start EXCEPT !.pc = "Wait"]
    /\ UNCHANGED << config, spiderVars, run, state, stateLock,
                    results, errorsClosed, done, waitGroup, worker, panicked >>

\* A mutated Start that does not wait for the workers before it closes
\* results.
StartWaitSkipped ==
    /\ Running
    /\ start.pc = "Wait"
    /\ results' = [results EXCEPT !.closed = TRUE]
    /\ start' = [start EXCEPT !.pc = "close errors"]
    /\ UNCHANGED << config, spiderVars, run, state, stateLock,
                    jobs, errorsClosed, done, waitGroup, drain, worker,
                    panicked >>

\* workerpool.go:99-100: every worker has exited; close(s.results).
StartWait ==
    /\ Running
    /\ start.pc = "Wait"
    /\ waitGroup = 0
    /\ results' = [results EXCEPT !.closed = TRUE]
    /\ start' = [start EXCEPT !.pc = "close errors"]
    /\ UNCHANGED << config, spiderVars, run, state, stateLock,
                    jobs, errorsClosed, done, waitGroup, drain, worker,
                    panicked >>

\* workerpool.go:101
StartCloseErrors ==
    /\ Running
    /\ start.pc = "close errors"
    /\ errorsClosed' = TRUE
    /\ start' = [start EXCEPT !.pc = "close done"]
    /\ UNCHANGED << config, spiderVars, run, state, stateLock,
                    jobs, results, done, waitGroup, drain, worker, panicked >>

\* workerpool.go:102
StartCloseDone ==
    /\ Running
    /\ start.pc = "close done"
    /\ done' = TRUE
    /\ start' = [start EXCEPT !.pc = "return"]
    /\ UNCHANGED << config, spiderVars, run, state, stateLock,
                    jobs, results, errorsClosed, waitGroup, drain, worker,
                    panicked >>

\* A mutated Start that returns nil when what it received was Stopped.
StartReturnNilOnStop ==
    /\ Running
    /\ start.pc = "return"
    /\ state' = "stopped"
    /\ start' = [start EXCEPT !.pc = "returned",
                              !.ret = IF start.err = Stopped THEN nil
                                      ELSE start.err]
    /\ UNCHANGED << config, spiderVars, run, stateLock, jobs,
                    results, errorsClosed, done, waitGroup, drain, worker,
                    panicked >>

\* workerpool.go:104-105
StartReturn ==
    /\ Running
    /\ start.pc = "return"
    /\ state' = "stopped"
    /\ start' = [start EXCEPT !.pc = "returned", !.ret = start.err]
    /\ UNCHANGED << config, spiderVars, run, stateLock, jobs,
                    results, errorsClosed, done, waitGroup, drain, worker,
                    panicked >>

\* workerpool.go:94-96: the draining goroutine receives and logs an error.
DrainReceive ==
    /\ Running
    /\ drain = "range"
    /\ ~errorsClosed
    /\ \E s \in Senders : Sent(s)
    /\ UNCHANGED << config, spiderVars, poolVars, panicked >>

\* workerpool.go:94: the range ends when errors is closed.
DrainExit ==
    /\ Running
    /\ drain = "range"
    /\ errorsClosed
    /\ drain' = "exited"
    /\ UNCHANGED << config, spiderVars, run, state, stateLock,
                    jobs, results, errorsClosed, done, waitGroup, start,
                    worker, panicked >>

\* ------------------------------------------------- WorkerPool.runWorker

\* workerpool.go:123 and 121: a job is claimed while one is buffered, also
\* after close(s.jobs); the range ends, and the deferred waitGroup.Done
\* runs, once jobs is closed and empty.
WorkerRange(w) ==
    /\ Running
    /\ worker[w].pc = "range"
    /\ IF jobs.n > 0
       THEN /\ jobs' = [jobs EXCEPT !.n = @ - 1]
            /\ worker' = [worker EXCEPT ![w].pc = "Next"]
            /\ UNCHANGED waitGroup
       ELSE /\ jobs.closed
            /\ worker' = [worker EXCEPT ![w].pc = "exited"]
            /\ waitGroup' = waitGroup - 1
            /\ UNCHANGED jobs
    /\ UNCHANGED << config, spiderVars, run, state, stateLock,
                    results, errorsClosed, done, start, drain, panicked >>

\* A mutated runWorker to which every error is fatal.
runWorkerPostStrict(err) == IF err = nil THEN "results" ELSE "errors"

\* workerpool.go:127-142: where the worker goes with what Work returned.
runWorkerPost(err) ==
    IF err = nil \/ Retryable(err) THEN "results" ELSE "errors"

\* workerpool.go:129 and 137: the send blocks while results is full.
WorkerResult(w) ==
    /\ Running
    /\ worker[w].pc = "results"
    /\ results.n < concurrency
    /\ results' = [results EXCEPT !.n = @ + 1]
    /\ worker' = [worker EXCEPT ![w] = idleWorker("range")]
    /\ UNCHANGED << config, spiderVars, run, state, stateLock,
                    jobs, errorsClosed, done, waitGroup, start, drain,
                    panicked >>

\* ------------------------------------------------------------ Spider.work

\* The deferred s.wg.Done() and the return of work to runWorker.
\* sync.WaitGroup.Done panics when the counter would go negative, and the
\* Done that brings the counter to zero releases the Wait of Run
\* (spider.go:338) when Run sleeps in it.
DoneOrPanic(w, err) ==
    IF wg - 1 < 0
    THEN /\ panicked' = "negative WaitGroup counter"
         /\ UNCHANGED << wg, worker, run >>
    ELSE /\ wg' = wg - 1
         /\ worker' = [worker EXCEPT ![w] =
                [idleWorker(runWorkerPost(err)) EXCEPT !.err = err]]
         /\ run' = IF wg = 1 /\ run.pc = "asleep"
                   THEN [run EXCEPT !.pc = "woken"] ELSE run
         /\ UNCHANGED panicked

\* spider.go:351-355: on an empty queue Next panics before the nil check is
\* reached; a nil item would be the idle poll.
WorkNext(w) ==
    /\ Running
    /\ worker[w].pc = "Next"
    /\ IF NextPanics(queue)
       THEN Panic("index out of range [-1]")
       ELSE /\ IF NextItem(queue) = NoItem
               THEN /\ worker' = [worker EXCEPT ![w].pc = runWorkerPost(nil)]
                    /\ UNCHANGED popped
               ELSE /\ worker' = [worker EXCEPT ![w].pc = "Request",
                                                ![w].next = NextItem(queue)]
                    /\ popped' = popped (+) SetToBag({NextItem(queue)})
            /\ queue' = NextRest(queue)
            /\ UNCHANGED << config, wg, sitemap, robots, robotsTxt, run,
                            poolVars, panicked, admitted, fetched, workErrors >>

\* spider.go:378: every link resolved against the root, each a new *url.URL.
absoluteLinks(next, links) ==
    LET resolved == mapURLs([input \in Elements(links) |->
                                asAbsolute(rootURL, input)], links)
    IN [i \in 1..Len(links) |->
           [url |-> resolved[i], ptr |-> next.ptr \o <<i>>]]

\* A mutated work that reports and enqueues the links without the
\* internal-only filter.
allLinks(next, links) == absoluteLinks(next, links)

\* spider.go:379
internalLinks(next, links) ==
    filter([item \in Elements(absoluteLinks(next, links)) |->
               onlyInternal(rootURL, scenario.followSubdomains, item.url)],
           absoluteLinks(next, links))

\* reporter.HTML.Add: the first entry for a key stays.
Add(report, uri, links, assets) ==
    IF uri \in DOMAIN report THEN report
    ELSE report @@ (uri :> [Links |-> links, Assets |-> assets])

\* A mutated work that returns the error of the request without the
\* deferred s.wg.Done().
WorkRequestErrorNoDone(w) ==
    /\ Running
    /\ worker[w].pc = "Request"
    /\ fetched' = fetched (+) SetToBag({worker[w].next.url})
    /\ workErrors' = workErrors \cup {errRequest}
    /\ worker' = [worker EXCEPT ![w] =
           [idleWorker(runWorkerPost(errRequest)) EXCEPT !.err = errRequest]]
    /\ UNCHANGED << config, queue, wg, sitemap, robots, robotsTxt, run,
                    poolVars, panicked, admitted, popped >>

\* spider.go:357-371: the request or the parse fails; work returns the
\* error and the deferred s.wg.Done() runs.
WorkRequestError(w) ==
    /\ Running
    /\ worker[w].pc = "Request"
    /\ fetched' = fetched (+) SetToBag({worker[w].next.url})
    /\ workErrors' = workErrors \cup {errRequest}
    /\ DoneOrPanic(w, errRequest)
    /\ UNCHANGED << config, queue, sitemap, robots, robotsTxt,
                    poolVars, admitted, popped >>

\* A mutated work that reports the links after the not-seen filter: only
\* the links it is about to enqueue.
WorkRequestReportsNew(w) ==
    /\ Running
    /\ worker[w].pc = "Request"
    /\ LET next == worker[w].next
           page == Page(scenario.site, next.url)
           links == internalLinks(next, page.Links)
           new == filter([l \in Elements(links) |-> notSeen(queue, l)], links)
       IN /\ sitemap' = Add(sitemap, next, new, page.Assets)
          /\ worker' = [worker EXCEPT ![w].pc = "filter", ![w].links = links,
                                      ![w].i = 1]
    /\ fetched' = fetched (+) SetToBag({worker[w].next.url})
    /\ UNCHANGED << config, queue, wg, robots, robotsTxt, run, poolVars,
                    panicked, admitted, popped, workErrors >>

\* spider.go:359-383: the request and the parse succeed; the internal links
\* and the assets are reported.
WorkRequest(w) ==
    /\ Running
    /\ worker[w].pc = "Request"
    /\ LET next == worker[w].next
           page == Page(scenario.site, next.url)
           links == internalLinks(next, page.Links)
       IN /\ sitemap' = Add(sitemap, next, links, page.Assets)
          /\ worker' = [worker EXCEPT ![w].pc = "filter", ![w].links = links,
                                      ![w].i = 1]
    /\ fetched' = fetched (+) SetToBag({worker[w].next.url})
    /\ UNCHANGED << config, queue, wg, robots, robotsTxt, run, poolVars,
                    panicked, admitted, popped, workErrors >>

\* spider.go:385, one call of the notSeen predicate by filter (urls.go:23-27);
\* after the last one the loop at spider.go:386 starts.
WorkFilter(w) ==
    /\ Running
    /\ worker[w].pc = "filter"
    /\ LET me == worker[w]
           more == me.i <= Len(me.links)
           toAdd == IF more /\ notSeen(queue, me.links[me.i])
                    THEN Append(me.toAdd, me.links[me.i]) ELSE me.toAdd
       IN worker' = [worker EXCEPT ![w] =
             IF more /\ me.i < Len(me.links)
             THEN [me EXCEPT !.toAdd = toAdd, !.i = me.i + 1]
             ELSE [me EXCEPT !.toAdd = toAdd, !.links = <<>>, !.i = 1,
                             !.pc = IF toAdd = <<>> THEN "return"
                                    ELSE "Append"]]
    /\ UNCHANGED << config, spiderVars, run, poolVars,
                    panicked >>

\* A mutated loop that appends the first of the links on every iteration.
WorkAppendFirst(w) ==
    /\ Running
    /\ worker[w].pc = "Append"
    /\ queue' = QueueAppend(queue, worker[w].toAdd[1])
    /\ admitted' = admitted (+) SetToBag({worker[w].toAdd[1]})
    /\ worker' = [worker EXCEPT ![w].pc = "Add"]
    /\ UNCHANGED << config, wg, sitemap, robots, robotsTxt, run, poolVars,
                    panicked, popped, fetched, workErrors >>

\* spider.go:388
WorkAppend(w) ==
    /\ Running
    /\ worker[w].pc = "Append"
    /\ queue' = QueueAppend(queue, worker[w].toAdd[worker[w].i])
    /\ admitted' = admitted (+) SetToBag({worker[w].toAdd[worker[w].i]})
    /\ worker' = [worker EXCEPT ![w].pc = "Add"]
    /\ UNCHANGED << config, wg, sitemap, robots, robotsTxt, run, poolVars,
                    panicked, popped, fetched, workErrors >>

\* A mutated loop step that forgets s.wg.Add(1) for the link it appended.
WorkAddForgets(w) ==
    /\ Running
    /\ worker[w].pc = "Add"
    /\ LET me == worker[w]
       IN worker' = [worker EXCEPT ![w] =
             IF me.i < Len(me.toAdd)
             THEN [me EXCEPT !.i = me.i + 1, !.pc = "Append"]
             ELSE [me EXCEPT !.i = 0, !.toAdd = <<>>, !.pc = "return"]]
    /\ UNCHANGED << config, queue, wg, sitemap, robots, robotsTxt, run, poolVars,
                    panicked, admitted, popped, fetched, workErrors >>

\* spider.go:389
WorkAdd(w) ==
    /\ Running
    /\ worker[w].pc = "Add"
    /\ wg' = wg + 1
    /\ LET me == worker[w]
       IN worker' = [worker EXCEPT ![w] =
             IF me.i < Len(me.toAdd)
             THEN [me EXCEPT !.i = me.i + 1, !.pc = "Append"]
             ELSE [me EXCEPT !.i = 0, !.toAdd = <<>>, !.pc = "return"]]
    /\ UNCHANGED << config, queue, sitemap, robots, robotsTxt, run,
                    poolVars, panicked, admitted, popped, fetched, workErrors >>

\* spider.go:392 and 357: return nil, and the deferred s.wg.Done() runs.
WorkReturn(w) ==
    /\ Running
    /\ worker[w].pc = "return"
    /\ DoneOrPanic(w, nil)
    /\ UNCHANGED << config, queue, sitemap, robots, robotsTxt,
                    poolVars, admitted, popped, fetched, workErrors >>

\* spider.go:389 while the Done that reached zero is still releasing the
\* Wait of Run: the Add finds the counter at zero with a waiter registered,
\* and sync.WaitGroup panics in the Add (or in that Done).
WorkAddMisuse(w) ==
    /\ Running
    /\ worker[w].pc = "Add"
    /\ wg = 0
    /\ run.pc = "woken"
    /\ Panic("WaitGroup misuse: Add called concurrently with Wait")

\* ------------------------------------------------------ the specification

Next ==
    \/ RunRobots
    \/ RunAppend
    \/ RunAdd
    \/ RunGo
    \/ RunWait
    \/ RunWoken
    \/ StopWaitLock
    \/ StopWaitCheck
    \/ StopWaitDone
    \/ SendOnClosed
    \/ StartLock
    \/ StartAdd
    \/ StartSpawn
    \/ StartResult
    \/ StartJob
    \/ StartError
    \/ StartCloseJobs
    \/ StartWait
    \/ StartCloseErrors
    \/ StartCloseDone
    \/ StartReturn
    \/ DrainReceive
    \/ DrainExit
    \/ \E w \in Workers : WorkerRange(w)
    \/ \E w \in Workers : WorkerResult(w)
    \/ \E w \in Workers : WorkNext(w)
    \/ \E w \in Workers : WorkRequestError(w)
    \/ \E w \in Workers : WorkRequest(w)
    \/ \E w \in Workers : WorkFilter(w)
    \/ \E w \in Workers : WorkAppend(w)
    \/ \E w \in Workers : WorkAdd(w)
    \/ \E w \in Workers : WorkAddMisuse(w)
    \/ \E w \in Workers : WorkReturn(w)

Spec == Init /\ [][Next]_vars

\* ------------------------------------- the queue under concurrent callers

\* The URLs the callers append and ask about.
CallerURLs == {rootURL, URL(RootHost, <<"/", "a">>)}

\* A mutated Lock that does not wait for the holders of the mutex.
LockNoWait(m) == TRUE

\* sync.RWMutex.Lock (queue.go:41, 49) waits until nobody holds the mutex.
CanLock(m) == m.writer = 0 /\ m.readers = {}

\* sync.RWMutex.RLock (queue.go:28, 34) waits until no writer holds it.
CanRLock(m) == m.writer = 0

queueOnly == << scenario, concurrency, wg, sitemap, robots, robotsTxt, run, state,
                stateLock, jobs, results, errorsClosed, done, waitGroup,
                start, drain, worker, fetched, workErrors >>

\* queue.go:49: Append(item) is called with a new *url.URL and takes the lock.
QAppendLock(c) ==
    /\ Running
    /\ caller[c].pc = "idle"
    /\ calls < MaxCalls
    /\ CanLock(mutex)
    /\ \E u \in CallerURLs :
         caller' = [caller EXCEPT ![c] =
            [idleCaller EXCEPT !.pc = "urls", !.op = "Append",
                               !.item = [url |-> u, ptr |-> <<calls + 1>>]]]
    /\ mutex' = [mutex EXCEPT !.writer = c]
    /\ calls' = calls + 1
    /\ UNCHANGED << queueOnly, queue, panicked, admitted, popped >>

\* queue.go:50
QAppendUrls(c) ==
    /\ Running
    /\ caller[c].pc = "urls"
    /\ queue' = [queue EXCEPT !.urls = QueueAppend(queue, caller[c].item).urls]
    /\ admitted' = admitted (+) SetToBag({caller[c].item})
    /\ caller' = [caller EXCEPT ![c].pc = "seen"]
    /\ UNCHANGED << queueOnly, mutex, calls, panicked, popped >>

\* queue.go:51
QAppendSeen(c) ==
    /\ Running
    /\ caller[c].pc = "seen"
    /\ queue' = [queue EXCEPT !.seen = QueueAppend(queue, caller[c].item).seen]
    /\ caller' = [caller EXCEPT ![c].pc = "Unlock"]
    /\ UNCHANGED << queueOnly, mutex, calls, panicked, admitted, popped >>

\* queue.go:41: Next() takes the lock.
QNextLock(c) ==
    /\ Running
    /\ caller[c].pc = "idle"
    /\ calls < MaxCalls
    /\ CanLock(mutex)
    /\ caller' = [caller EXCEPT ![c] =
                    [idleCaller EXCEPT !.pc = "index", !.op = "Next"]]
    /\ mutex' = [mutex EXCEPT !.writer = c]
    /\ calls' = calls + 1
    /\ UNCHANGED << queueOnly, queue, panicked, admitted, popped >>

\* queue.go:43, the right-hand side: the last item and the slice before it
\* are evaluated, and the index panics on an empty list.
QNextIndex(c) ==
    /\ Running
    /\ caller[c].pc = "index"
    /\ IF NextPanics(queue)
       THEN /\ panicked' = "index out of range [-1]"
            /\ UNCHANGED caller
       ELSE /\ caller' = [caller EXCEPT ![c].pc = "assign",
                                        ![c].item = NextItem(queue),
                                        ![c].rest = NextRest(queue).urls]
            /\ UNCHANGED panicked
    /\ UNCHANGED << queueOnly, queue, mutex, calls, admitted, popped >>

\* queue.go:43, the assignment to q.urls.
QNextAssign(c) ==
    /\ Running
    /\ caller[c].pc = "assign"
    /\ queue' = [queue EXCEPT !.urls = caller[c].rest]
    /\ caller' = [caller EXCEPT ![c].pc = "Unlock", ![c].rest = <<>>]
    /\ UNCHANGED << queueOnly, mutex, calls, panicked, admitted, popped >>

\* queue.go:28 and 34: HasItems() and Seen(item) take the read lock.
QReadLock(c) ==
    /\ Running
    /\ caller[c].pc = "idle"
    /\ calls < MaxCalls
    /\ CanRLock(mutex)
    /\ \/ caller' = [caller EXCEPT ![c] =
                       [idleCaller EXCEPT !.pc = "read", !.op = "HasItems"]]
       \/ \E u \in CallerURLs :
            caller' = [caller EXCEPT ![c] =
               [idleCaller EXCEPT !.pc = "read", !.op = "Seen",
                                  !.item = [url |-> u, ptr |-> <<calls + 1>>]]]
    /\ mutex' = [mutex EXCEPT !.readers = @ \cup {c}]
    /\ calls' = calls + 1
    /\ UNCHANGED << queueOnly, queue, panicked, admitted, popped >>

\* queue.go:30 and 35
QRead(c) ==
    /\ Running
    /\ caller[c].pc = "read"
    /\ caller' = [caller EXCEPT
          ![c].ret = IF caller[c].op = "Seen" THEN Seen(queue, caller[c].item)
                     ELSE HasItems(queue),
          ![c].pc = "Unlock"]
    /\ UNCHANGED << queueOnly, queue, mutex, calls, panicked, admitted,
                    popped >>

\* queue.go:29, 36, 44, 52: the lock is given back and the call returns;
\* Next hands its item to the caller.
QUnlock(c) ==
    /\ Running
    /\ caller[c].pc = "Unlock"
    /\ mutex' = [writer |-> IF mutex.writer = c THEN 0 ELSE mutex.writer,
                 readers |-> mutex.readers \ {c}]
    /\ popped' = IF caller[c].op = "Next"
                 THEN popped (+) SetToBag({caller[c].item}) ELSE popped
    /\ caller' = [caller EXCEPT ![c] = idleCaller]
    /\ UNCHANGED << queueOnly, queue, calls, panicked, admitted >>

\* A new queue (newURLQueue) and NumCallers goroutines around it.
QueueInit ==
    /\ scenario = [site |-> "single", followSubdomains |-> FALSE,
                   ignoreRobots |-> TRUE]
    /\ concurrency = 1
    /\ Constructed
    /\ run = [pc |-> "robots", ret |-> nil]

QueueNext ==
    \/ \E c \in Callers : QAppendLock(c)
    \/ \E c \in Callers : QAppendUrls(c)
    \/ \E c \in Callers : QAppendSeen(c)
    \/ \E c \in Callers : QNextLock(c)
    \/ \E c \in Callers : QNextIndex(c)
    \/ \E c \in Callers : QNextAssign(c)
    \/ \E c \in Callers : QReadLock(c)
    \/ \E c \in Callers : QRead(c)
    \/ \E c \in Callers : QUnlock(c)

QueueSpec == QueueInit /\ [][QueueNext]_vars

\* --------------------------------------------------- the worker pool alone

\* The pool with a mock Worker, as the pool's tests drive it: what Work may
\* return, and whether the test launches Start on a goroutine and calls
\* StopWait (TestStart, TestStartRetryableError) or calls Start itself
\* (TestStartError, TestStartMultipleErrors).
Tests ==
    [returns : {{nil}, {AnError}, {errRetryable}, {nil, AnError},
                {nil, errRetryable}},
     stop : BOOLEAN]

\* go pool.Start() followed, at any later time, by pool.StopWait() or by
\* pool.UntilPoolExhausted(); or pool.Start() called by the test.
TestGo ==
    /\ Running
    /\ run.pc = "go"
    /\ start' = [start EXCEPT !.pc = "Lock"]
    /\ \E call \in IF scenario.stop THEN {"StopWait", "UntilPoolExhausted"}
                                     ELSE {"Start"} :
           run' = [run EXCEPT !.pc = call]
    /\ UNCHANGED << config, spiderVars, state, stateLock, jobs,
                    results, errorsClosed, done, waitGroup, drain, worker,
                    panicked >>

\* workerpool.go:153-157: s.waitGroup.Wait() returns when the pool's
\* counter is zero (at once before Start's Add), then s.StopWait() is called.
UntilPoolExhausted ==
    /\ Running
    /\ run.pc = "UntilPoolExhausted"
    /\ waitGroup = 0
    /\ run' = [run EXCEPT !.pc = "StopWait"]
    /\ UNCHANGED << config, spiderVars, poolVars, worker, panicked >>

\* err := pool.Start(): the test has Start's error.
TestStartReturned ==
    /\ Running
    /\ run.pc = "Start"
    /\ start.pc = "returned"
    /\ run' = [pc |-> "returned", ret |-> start.ret]
    /\ UNCHANGED << config, spiderVars, poolVars, worker, panicked >>

\* workerpool.go:125: the mock's Work runs and returns one of its values.
MockWork(w) ==
    /\ Running
    /\ worker[w].pc = "Next"
    /\ \E err \in scenario.returns :
         worker' = [worker EXCEPT ![w] =
                [idleWorker(runWorkerPost(err)) EXCEPT !.err = err]]
    /\ UNCHANGED << config, spiderVars, run, poolVars, panicked >>

\* A further pool.StopWait() from a goroutine of the test, made once the
\* pool has stopped (done closed and the state set back to stopped,
\* workerpool.go:102-104): the call itself, line 161.
StopWaitAgain(c) ==
    /\ Running
    /\ done
    /\ state = "stopped"
    /\ calls < MaxCalls
    /\ caller[c].pc = "idle"
    /\ caller' = [caller EXCEPT ![c] =
                      [idleCaller EXCEPT !.pc = "Lock", !.op = "StopWait"]]
    /\ calls' = calls + 1
    /\ UNCHANGED << scenario, concurrency, mutex, spiderVars, poolVars, run,
                    worker, panicked >>

\* workerpool.go:162: the further call waits for stateLock.
AgainLock(c) ==
    /\ Running
    /\ caller[c].op = "StopWait"
    /\ caller[c].pc = "Lock"
    /\ stateLock = "free"
    /\ stateLock' = "StopWait"
    /\ caller' = [caller EXCEPT ![c].pc = "check"]
    /\ UNCHANGED << scenario, concurrency, mutex, calls, spiderVars, state,
                    jobs, results, errorsClosed, done, waitGroup, start,
                    drain, run, worker, panicked >>

\* workerpool.go:164-166: Stop() only when the state read is running.
AgainCheck(c) ==
    /\ Running
    /\ caller[c].op = "StopWait"
    /\ caller[c].pc = "check"
    /\ caller' = [caller EXCEPT ![c].pc =
                      IF state = "running" THEN "Stop" ELSE "done"]
    /\ UNCHANGED << scenario, concurrency, mutex, calls, spiderVars,
                    poolVars, run, worker, panicked >>

\* workerpool.go:167 and 163: the receive from done, the deferred Unlock,
\* and the call has returned.
AgainDone(c) ==
    /\ Running
    /\ caller[c].op = "StopWait"
    /\ caller[c].pc = "done"
    /\ done
    /\ stateLock' = "free"
    /\ caller' = [caller EXCEPT ![c] = idleCaller]
    /\ UNCHANGED << scenario, concurrency, mutex, calls, spiderVars, state,
                    jobs, results, errorsClosed, done, waitGroup, start,
                    drain, run, worker, panicked >>

\* NewWorkerPool(logger, numWorkers, worker) and a test about to start it.
PoolInit ==
    /\ scenario \in Tests
    /\ concurrency \in 1..NumWorkers
    /\ Constructed
    /\ run = [pc |-> "go", ret |-> nil]

PoolNext ==
    \/ TestGo
    \/ TestStartReturned
    \/ UntilPoolExhausted
    \/ StopWaitLock
    \/ StopWaitCheck
    \/ StopWaitDone
    \/ SendOnClosed
    \/ StartLock
    \/ StartAdd
    \/ StartSpawn
    \/ StartResult
    \/ StartJob
    \/ StartError
    \/ StartCloseJobs
    \/ StartWait
    \/ StartCloseErrors
    \/ StartCloseDone
    \/ StartReturn
    \/ DrainReceive
    \/ DrainExit
    \/ \E w \in Workers : WorkerRange(w)
    \/ \E w \in Workers : WorkerResult(w)
    \/ \E w \in Workers : MockWork(w)
    \/ \E c \in Callers : StopWaitAgain(c)
    \/ \E c \in Callers : AgainLock(c)
    \/ \E c \in Callers : AgainCheck(c)
    \/ \E c \in Callers : AgainDone(c)

PoolSpec == PoolInit /\ [][PoolNext]_vars

\* The scheduler runs every goroutine that can take a step, and a select
\* with several ready cases picks among them at random: a sender on errors
\* that is ready whenever Start comes to its select is received from.
PoolFairness ==
    /\ WF_vars(TestGo)
    /\ WF_vars(TestStartReturned)
    /\ WF_vars(UntilPoolExhausted)
    /\ WF_vars(StopWaitLock)
    /\ WF_vars(StopWaitCheck)
    /\ WF_vars(StopWaitDone)
    /\ WF_vars(StartLock)
    /\ WF_vars(StartAdd)
    /\ WF_vars(StartSpawn)
    /\ WF_vars(StartResult)
    /\ WF_vars(StartJob)
    /\ SF_vars(StartError)
    /\ WF_vars(StartCloseJobs)
    /\ WF_vars(StartWait)
    /\ WF_vars(StartCloseErrors)
    /\ WF_vars(StartCloseDone)
    /\ WF_vars(StartReturn)
    /\ WF_vars(DrainReceive)
    /\ WF_vars(DrainExit)
    /\ \A w \in Workers : /\ WF_vars(WorkerRange(w))
                           /\ WF_vars(WorkerResult(w))
                           /\ WF_vars(MockWork(w))
    /\ \A c \in Callers : /\ WF_vars(AgainLock(c))
                           /\ WF_vars(AgainCheck(c))
                           /\ WF_vars(AgainDone(c))

PoolFairSpec == PoolSpec /\ PoolFairness

\* ------------------------------------------------------------- the claims

\* A worker between popping a URL (spider.go:351) and the end of its crawl
\* step (the deferred Done).
InCrawlStep(w) ==
    worker[w].pc \in {"Request", "filter", "Append", "Add", "return"}

\* The pool has been started (go pool.Start(), spider.go:335): the root is
\* in the queue and counted.
PoolStarted ==
    start.pc # "off"

\* The number of items ever admitted whose URL string is str.
TimesAdmitted(str) ==
    LET same == {a \in BagToSet(admitted) : String(a.url) = str}
    IN IF same = {} THEN 0 ELSE BagCardinality([a \in same |-> admitted[a]])

\* C1: once the pool runs, the completion counter is zero only if the
\* pending list is empty and no worker is between popping a URL and
\* finishing its crawl step.
CounterZeroOnlyWhenIdle ==
    (PoolStarted /\ wg = 0) =>
        (queue.urls = <<>> /\ \A w \in Workers : ~InCrawlStep(w))

\* C2: the completion counter is never negative, and no Done ever finds it
\* at zero (which sync.WaitGroup answers with a panic).
CounterNeverNegative ==
    wg >= 0 /\ panicked # "negative WaitGroup counter"

\* C2, witness: with two workers, a crawl step has admitted links and
\* counted them, and at least two popped URLs have been counted down.
CounterWentUpAndDown ==
    /\ concurrency = 2
    /\ BagCardinality(admitted) >= 3
    /\ BagCardinality(popped) >= 2
    /\ wg = BagCardinality(admitted) - 2

\* C3: if a crawl step has returned a fatal error, Run returns that error.
RunReturnsWorkError ==
    (run.pc = "returned" /\ workErrors # {}) => run.ret \in workErrors

\* C4: after a crawl step has returned a fatal error, Run returns: the
\* program never comes to rest (nothing left to run, no panic) with Run
\* still waiting.
RunReturnsAfterFatal ==
    (Running /\ workErrors # {} /\ ~ENABLED Next) => run.pc = "returned"

\* C5: each URL string is admitted to the queue at most once; stated for the
\* site on which no page lists a link twice, where only two workers
\* discovering the same link at once can admit it twice.
AdmittedAtMostOnce ==
    scenario.site = "share" =>
        \A a \in BagToSet(admitted) : TimesAdmitted(String(a.url)) <= 1

\* C6: with a single worker, on the site whose root lists /a twice, /a is
\* admitted once and fetched once.
DuplicateLinkFetchedOnce ==
    (concurrency = 1 /\ scenario.site = "dup") =>
        /\ TimesAdmitted(String(URL(RootHost, <<"/", "a">>))) <= 1
        /\ \A u \in BagToSet(fetched) : CopiesIn(u, fetched) <= 1

\* The internal-URL policy of the run: external is a host other than the
\* root's or, when subdomains are followed, one the root's host is no suffix
\* of.
External(u) ==
    IF scenario.followSubdomains
    THEN ~HasSuffix(u.host, rootURL.host)
    ELSE u.host # rootURL.host

\* C7: a URL external to the root is never admitted to the queue and never
\* fetched.
ExternalNeverAdmitted ==
    /\ \A a \in BagToSet(admitted) : ~External(a.url)
    /\ \A u \in BagToSet(fetched) : ~External(u)

\* C7, witness: the page that links to a subdomain, a lookalike and an
\* external host has been processed and its subdomain link fetched.
SubdomainFetched ==
    /\ scenario.site = "hosts"
    /\ URL(SubHost, <<>>) \in BagToSet(fetched)

\* How often item e has been handed to a caller of Next, counting the calls
\* that hold it and have not returned yet.
Received(e) ==
    CopiesIn(e, popped)
      + Cardinality({c \in Callers : /\ caller[c].op = "Next"
                                      /\ caller[c].pc \in {"assign", "Unlock"}
                                      /\ caller[c].item = e})

\* C8: each admitted item is returned by at most one Next call, and an item
\* a call has returned is no longer pending.
EachItemPoppedOnce ==
    \A e \in BagToSet(admitted) :
        /\ Received(e) <= 1
        /\ (mutex.writer = 0 /\ Received(e) = 1) =>
              \A i \in 1..Len(queue.urls) : queue.urls[i] # e

\* C8, witness: two Next calls have returned, with items of the same URL.
TwoItemsPopped ==
    \E e1, e2 \in BagToSet(popped) : e1 # e2 /\ e1.url = e2.url

\* C9: whenever no call holds the write lock, the seen-set is the set of the
\* URL strings ever admitted; it holds every pending and every popped URL.
SeenIsEverAdmitted ==
    mutex.writer = 0 =>
        /\ queue.seen = {String(a.url) : a \in BagToSet(admitted)}
        /\ \A i \in 1..Len(queue.urls) : String(queue.urls[i].url) \in queue.seen
        /\ \A e \in BagToSet(popped) : String(e.url) \in queue.seen

\* C9, witness: a URL has been popped, is pending no more, and is still seen
\* while another URL is pending.
PoppedStillSeen ==
    /\ mutex.writer = 0
    /\ queue.urls # <<>>
    /\ \E e \in BagToSet(popped) :
          /\ String(e.url) \in queue.seen
          /\ \A i \in 1..Len(queue.urls) : queue.urls[i].url # e.url

\* C10: Next on an empty queue returns nil and does not panic.
NextOnEmptyReturnsNil ==
    panicked # "index out of range [-1]"

\* The place of an item in the order of admission: the queue's callers
\* number their calls as they take the lock.
Admission(e) == e.ptr[1]

\* The caller c is inside Next and holds the item Next returns.
Returning(c) == caller[c].op = "Next" /\ caller[c].pc = "Unlock"

\* C11: Next returns the most recently admitted URL that is still pending;
\* the pending URLs stay in their order of admission and none other than
\* the returned one leaves the list.
NextReturnsNewestPending ==
    /\ \A i, j \in 1..Len(queue.urls) :
          i < j => Admission(queue.urls[i]) < Admission(queue.urls[j])
    /\ \A c \in Callers : Returning(c) =>
          \A i \in 1..Len(queue.urls) :
             Admission(queue.urls[i]) < Admission(caller[c].item)
    /\ \A e \in BagToSet(admitted) :
          \/ \E i \in 1..Len(queue.urls) : queue.urls[i] = e
          \/ e \in BagToSet(popped)
          \/ \E c \in Callers : Returning(c) /\ caller[c].item = e

\* C11, witness: Next is returning an item and has left two older ones
\* pending.
NextLeftTwoPending ==
    \E c \in Callers : Returning(c) /\ Len(queue.urls) >= 2

\* The worker w is inside an invocation of the unit of work
\* (workerpool.go:125).
Executing(w) ==
    worker[w].pc \in {"Next", "Request", "filter", "Append", "Add", "return"}

\* C12: at most numWorkers invocations of the unit of work execute at the
\* same time.
AtMostNExecuting ==
    Cardinality({w \in Workers : Executing(w)}) <= concurrency

\* C12, witness: a pool of two workers with both inside the unit of work.
TwoExecuting ==
    /\ concurrency = 2
    /\ Cardinality({w \in Workers : Executing(w)}) = 2

\* Every runWorker goroutine that was started has returned.
WorkersExited == \A w \in Workers : worker[w].pc \in {"off", "exited"}

\* C13: once the unit of work has returned a fatal error, Start returns,
\* with a non-nil error, and Start has returned only when every worker
\* goroutine has exited.
StartReturnsFatalError ==
    /\ (\E w \in Workers : worker[w].pc = "errors")
          ~> (start.pc = "returned" /\ start.ret # nil)
    /\ [](start.pc = "returned" => (start.ret # nil /\ WorkersExited))

\* The tokens of the pool: in jobs, held by a worker from the claim to the
\* posted result, in results, or in Start's hand between the two.
Tokens ==
    jobs.n + results.n
      + Cardinality({w \in Workers : worker[w].pc \in {"Next", "results"}})
      + (IF start.pc = "jobs" THEN 1 ELSE 0)

\* C14: a retryable error is handled like success.  The worker that has one
\* posts a result and never sends it on errors, Start never receives it;
\* and a pool whose unit of work returns nothing but nil and retryable
\* errors, left alone, stays running with every token in circulation.
RetryableIsSuccess ==
    /\ \A w \in Workers : Retryable(worker[w].err) => worker[w].pc = "results"
    /\ ~Retryable(start.err)
    /\ (scenario.returns \subseteq {nil, errRetryable} /\ ~scenario.stop) =>
          /\ start.pc \in {"off", "Lock", "Add", "spawn", "select", "jobs"}
          /\ start.pc \in {"Add", "spawn", "select", "jobs"} =>
                 state = "running"
          /\ start.pc \in {"select", "jobs"} => Tokens = concurrency

\* C14, witness: the unit of work returns only retryable errors, and Start
\* has received a result and is about to issue the next token.
RetryableResultReceived ==
    /\ scenario.returns = {errRetryable}
    /\ state = "running"
    /\ start.pc = "jobs"

\* The pool is stopping or has stopped after running.
StoppingOrStopped ==
    state = "stopping" \/ (state = "stopped" /\ start.pc = "returned")

\* C15: once the pool is stopping no worker consumes a token and starts a
\* new invocation of the unit of work.
NoNewWorkOnceStopping ==
    [][StoppingOrStopped =>
          \A w \in Workers :
             (worker[w].pc = "range" => worker'[w].pc # "Next")]_vars

\* C16: a StopWait called at any time after Start was launched returns (the
\* pool never comes to rest, without a panic, with StopWait still blocked),
\* and when it has returned the pool is stopped.
StopWaitReturnsStopped ==
    scenario.stop =>
        /\ (Running /\ ~ENABLED PoolNext) => run.pc = "returned"
        /\ run.pc = "returned" => state = "stopped"

\* C17: when Start has observed a fatal error of a worker, a StopWait that
\* races with it or follows it never sends the stop sentinel on the closed
\* errors channel, and never stays blocked in that send.
StopAfterFatalIsNoOp ==
    start.err = AnError =>
        /\ panicked # "send on closed channel"
        /\ (Running /\ ~ENABLED PoolNext) => run.pc # "Stop"

\* C18: the state of the pool only moves stopped -> running -> stopping ->
\* stopped: to running only by Start's first step, to stopping only as Start
\* receives an error or the stop sentinel, and to the final stopped only
\* when every worker has exited.
StateMovesForward ==
    [][state' # state =>
          \/ /\ state = "stopped" /\ state' = "running"
             /\ start.pc = "Lock" /\ start'.pc = "Add"
          \/ /\ state = "running" /\ state' = "stopping"
             /\ start.pc = "select" /\ start'.err # nil
          \/ /\ state = "stopping" /\ state' = "stopped"
             /\ start'.pc = "returned" /\ WorkersExited]_vars

\* C18, witness: a pool of two workers has gone through running and
\* stopping and is stopped for good.
PoolStoppedForGood ==
    /\ concurrency = 2
    /\ state = "stopped"
    /\ start.pc = "returned"

\* C19: when every fetch succeeds Run returns nil: a crawl in which no
\* request has failed never comes to an end, by a panic or with every
\* goroutine blocked, before Run has returned nil.
RunReturnsNilWhenFetchesSucceed ==
    (workErrors = {} /\ run.ret = nil /\ ~ENABLED Next) =>
        (run.pc = "returned" /\ run.ret = nil)

\* C20: when Run has returned nil, with no request failed, every item ever
\* admitted has been popped and fetched and its crawl step is over: nothing
\* is pending and no worker is inside a crawl step.  Stated for the site of
\* a root and two leaf pages, on which no URL is admitted twice.
CrawlCompleteWhenRunReturns ==
    (scenario.site = "two" /\ run.pc = "returned" /\ run.ret = nil
        /\ workErrors = {}) =>
        /\ queue.urls = <<>>
        /\ \A w \in Workers : ~InCrawlStep(w)
        /\ \A a \in BagToSet(admitted) :
              /\ CopiesIn(a, popped) = CopiesIn(a, admitted)
              /\ a.url \in BagToSet(fetched)

\* C21: the crawl of the site of one page without links, its requests
\* succeeding, comes to an end only by Run returning, with one fetch made,
\* the root's, and one entry in the reporter, which has no links.
SinglePageCrawlTerminates ==
    (scenario.site = "single" /\ workErrors = {} /\ run.ret = nil
        /\ ~ENABLED Next) =>
        /\ run.pc = "returned"
        /\ BagCardinality(fetched) = 1
        /\ Cardinality(DOMAIN sitemap) = 1
        /\ \A uri \in DOMAIN sitemap : sitemap[uri].Links = <<>>

\* C22: with robots.txt honoured, a snapshot that disallows everything
\* (robots.txt answered 5xx) keeps the crawl step from fetching any URL.
DisallowedNeverFetched ==
    (~scenario.ignoreRobots /\ robots = "disallowAll") => fetched = EmptyBag

\* C23: when reading robots.txt fails with a transport error, robots.txt
\* being honoured, Run has returned that error with the root not admitted,
\* the completion counter not incremented, the pool not started and no
\* page fetched.
RobotsErrorAbortsRun ==
    run.ret = errRobots =>
        /\ ~scenario.ignoreRobots
        /\ run.pc = "returned"
        /\ robots = nil
        /\ queue = newURLQueue
        /\ admitted = EmptyBag
        /\ wg = 0
        /\ start.pc = "off"
        /\ state = "stopped"
        /\ \A w \in Workers : worker[w].pc = "off"
        /\ fetched = EmptyBag

RunReturnedRobotsError ==
    /\ ~scenario.ignoreRobots
    /\ run.pc = "returned"
    /\ run.ret = errRobots

\* C24, as claimed: reading robots.txt turns an HTTP status failure into a
\* policy and not into an error: after a 4xx answer Run holds the allow-all
\* snapshot, after a 5xx answer the disallow-all snapshot, and in both
\* cases it has gone on with no error; after a transport failure it has
\* returned the error and holds no snapshot; and the transport failure is
\* the only result of the request after which Run has returned an error.
OnlyTransportFailureFails ==
    /\ \A i \in 1..Len(robotsTxt) :
        /\ robotsTxt[i] = "4xx" => (robots = "allowAll" /\ run.ret = nil)
        /\ robotsTxt[i] = "5xx" => (robots = "disallowAll" /\ run.ret = nil)
        /\ robotsTxt[i] = "transport" =>
              (robots = nil /\ run = [pc |-> "returned", ret |-> errRobots])
    /\ run.ret # nil => robotsTxt = <<"transport">>

\* C24, amended: after a 4xx answer Run holds the allow-all snapshot, after
\* a 5xx answer the disallow-all snapshot, and in both cases, as after
\* every answer that gives a snapshot, it has gone on with no error.  Run
\* has returned an error, holding no snapshot, exactly after a transport
\* failure, after a status outside 2xx, 4xx and 5xx, and after a 200 whose
\* body the parser rejects; the error is the one of that failure.
StatusFailureGivesPolicy ==
    /\ \A i \in 1..Len(robotsTxt) :
        /\ robotsTxt[i] = "4xx" => (robots = "allowAll" /\ run.ret = nil)
        /\ robotsTxt[i] = "5xx" => (robots = "disallowAll" /\ run.ret = nil)
        /\ robotsTxt[i] \in {"200", "2xx", "4xx", "5xx"} =>
              (run.pc # "robots" /\ run.ret = nil /\ robots # nil)
        /\ robotsTxt[i] = "transport" =>
              (robots = nil /\ run = [pc |-> "returned", ret |-> errRobots])
        /\ robotsTxt[i] = "3xx" =>
              (robots = nil
                 /\ run = [pc |-> "returned", ret |-> errUnexpectedStatus])
        /\ robotsTxt[i] = "200 malformed" =>
              (robots = nil /\ run = [pc |-> "returned", ret |-> errParse])
    /\ run.ret # nil =>
          robotsTxt \in {<<"transport">>, <<"3xx">>, <<"200 malformed">>}

\* C24, witness: robots.txt was answered 5xx and Run goes on with the
\* disallow-all snapshot.
RobotsAnswered5xx ==
    /\ robotsTxt = <<"5xx">>
    /\ robots = "disallowAll"
    /\ run.pc = "Append"

\* C25: robots.txt is requested at most once in a run, only while no
\* snapshot is held and robots.txt is not ignored, and before the pool is
\* started and any worker runs; the snapshot is set by that request only
\* and never changes once the pool has been started.
RobotsReadOnceBeforePool ==
    [][/\ robotsTxt' # robotsTxt =>
             /\ robotsTxt = <<>>
             /\ Len(robotsTxt') = 1
             /\ robots = nil
             /\ ~scenario.ignoreRobots
             /\ start.pc = "off"
             /\ \A w \in Workers : worker[w].pc = "off"
       /\ robots' # robots =>
             /\ robotsTxt' # robotsTxt
             /\ start'.pc = "off"
      ]_vars

CrawlAfterRobotsRead ==
    /\ robotsTxt = <<"200">>
    /\ robots = "rules"
    /\ \E w \in Workers : InCrawlStep(w)

\* C26: recording a URL that the reporter already holds is a no-op: the
\* reporter never holds two entries for one URL.
OneEntryPerURL ==
    \A a, b \in DOMAIN sitemap : String(a.url) = String(b.url) => a = b

\* C27: with followSubdomains off, the links work reports for a page are
\* exactly the resolved links whose host equals the root's host: a link to
\* a subdomain or to another host is left out, a relative link, resolved
\* against the root, is kept; and only such URLs are admitted.
ExactHostIsInternal ==
    ~scenario.followSubdomains =>
        /\ \A uri \in DOMAIN sitemap :
              LET links == Page(scenario.site, uri.url).Links
                  resolved == absoluteLinks(uri, links)
              IN \A i \in 1..Len(links) :
                    /\ (resolved[i] \in Elements(sitemap[uri].Links)) <=>
                          (Hostname(resolved[i].url) = Hostname(rootURL))
                    /\ Hostname(links[i]) = <<>> =>
                          resolved[i] \in Elements(sitemap[uri].Links)
        /\ \A a \in BagToSet(admitted) : Hostname(a.url) = Hostname(rootURL)

MixedLinksReported ==
    /\ scenario.site = "mixed"
    /\ ~scenario.followSubdomains
    /\ rootItem \in DOMAIN sitemap
    /\ Len(sitemap[rootItem].Links) = 2
    /\ BagCardinality(admitted) = 3

\* C28: with followSubdomains on, the hosts taken for internal are the
\* root's host and its subdomains (the hosts that end with a dot and the
\* root's host): a host that only ends with the characters of the root's
\* host, without a label boundary, is neither reported as a link, nor
\* admitted, nor fetched.
LookalikeHostIsExternal ==
    LET RootOrSubdomain(host) ==
            \/ host = Hostname(rootURL)
            \/ HasSuffix(host, <<".">> \o Hostname(rootURL))
    IN scenario.followSubdomains =>
          /\ \A uri \in DOMAIN sitemap :
                \A i \in 1..Len(sitemap[uri].Links) :
                   RootOrSubdomain(Hostname(sitemap[uri].Links[i].url))
          /\ \A a \in BagToSet(admitted) : RootOrSubdomain(Hostname(a.url))
          /\ \A u \in BagToSet(fetched) : RootOrSubdomain(Hostname(u))

\* C29: a worker that has sent a fatal error leaves its loop: from the head
\* of the loop it goes nowhere but out, it claims no other token and does
\* not call Work again, whatever is buffered in jobs.
FatalWorkerLeavesLoop ==
    [][\A w \in Workers :
          (worker[w].pc = "range" /\ worker[w].err = AnError) =>
              worker'[w].pc \in {"range", "exited"}]_vars

\* The workers blocked in the send of a fatal error (workerpool.go:142).
AtErrors == {w \in Workers : worker[w].pc = "errors"}

\* C30: when two workers are sending a fatal error at the same time, the
\* pool shuts down: Start returns the error it received first, every worker
\* has exited and done is closed.  Start takes one error only, the first,
\* and a send completed after that changes nothing of Start and of the
\* pool's state.
ConcurrentErrorsShutDown ==
    /\ (Cardinality(AtErrors) >= 2) ~>
          (/\ start.pc = "returned"
           /\ start.ret # nil
           /\ start.ret = start.err
           /\ WorkersExited
           /\ done)
    /\ [][start.err # nil => start'.err = start.err]_vars
    /\ [][\A w \in Workers :
            (start.err # nil /\ worker[w].pc = "errors"
                /\ worker'[w].pc # "errors") =>
               (start' = start /\ state' = state /\ jobs' = jobs)]_vars

\* C31: a crawl step that finds the queue empty returns success and is a
\* no-op: the worker goes on to post a result, nothing is fetched, and the
\* completion counter, the queue and the reporter are left as they were.
EmptyPollIsNoOp ==
    [][\A w \in Workers :
          (/\ worker[w].pc = "Next"
           /\ ~HasItems(queue)
           /\ (worker'[w] # worker[w] \/ panicked' # panicked)) =>
              /\ panicked' = "none"
              /\ worker'[w].pc = runWorkerPost(nil)
              /\ UNCHANGED << wg, queue, sitemap, fetched >>]_vars

\* C32: a crawl step whose request fails returns the error, which is not
\* retryable, so that the worker goes to send it on errors; the completion
\* counter goes down by one, no URL is admitted and the reporter, with the
\* entries of earlier steps, stays as it was.
FailedFetchIsFatal ==
    [][\A w \in Workers :
          (worker[w].pc = "Request"
              /\ worker'[w].pc \notin {"Request", "filter"}) =>
              /\ worker'[w].err = errRequest
              /\ ~Retryable(worker'[w].err)
              /\ worker'[w].pc = "errors"
              /\ errRequest \in workErrors'
              /\ wg' = wg - 1
              /\ panicked' = "none"
              /\ UNCHANGED << queue, admitted, sitemap >>]_vars

FetchFailedAfterReport ==
    /\ \E w \in Workers :
          worker[w].pc = "errors" /\ worker[w].err = errRequest
    /\ rootItem \in DOMAIN sitemap
    /\ BagCardinality(fetched) >= 2

\* C33: a successful crawl step of the URL u admits exactly the links of
\* u's page that survive the internal and the not-seen filters, resolved,
\* each once.  At the end of the step (before the deferred Done) the items
\* admitted by it, the children of u, are among the internal links of the
\* page; with one worker, so that nothing else touches the queue during
\* the step, they are exactly the links not seen before the step, they are
\* the end of the pending list, in order, the rest of which is what was
\* pending before less u, and the counter, one per pending item before the
\* step, stands at one per pending item plus one, and at one per pending
\* item after the Done: it has changed by k - 1.
StepAdmitsSurvivors ==
    /\ \A w \in Workers :
          worker[w].pc = "return" =>
             LET u == worker[w].next
                 children ==
                    {a \in BagToSet(admitted) :
                        /\ Len(a.ptr) = Len(u.ptr) + 1
                        /\ SubSeq(a.ptr, 1, Len(u.ptr)) = u.ptr}
                 links == internalLinks(u, Page(scenario.site, u.url).Links)
                 before ==
                    {String(a.url) : a \in BagToSet(admitted) \ children}
                 survivors ==
                    filter([l \in Elements(links) |->
                               String(l.url) \notin before], links)
                 k == Len(survivors)
             IN /\ children \subseteq Elements(links)
                /\ \A c \in children : CopiesIn(c, admitted) = 1
                /\ concurrency = 1 =>
                      /\ children = Elements(survivors)
                      /\ Len(queue.urls) >= k
                      /\ SubSeq(queue.urls, Len(queue.urls) - k + 1,
                                Len(queue.urls)) = survivors
                      /\ Elements(queue.urls) =
                            BagToSet(admitted) \ BagToSet(popped)
                      /\ wg = Len(queue.urls) + 1
    /\ (/\ concurrency = 1
        /\ run.pc \notin {"robots", "Append", "Add"}
        /\ \A w \in Workers : ~InCrawlStep(w)) => wg = Len(queue.urls)

RootStepAdmittedTwo ==
    /\ concurrency = 1
    /\ worker[1].pc = "return"
    /\ worker[1].next = rootItem
    /\ Len(queue.urls) = 2
    /\ wg = 3

\* C34: Start handles a stop request as it handles a fatal error of a
\* worker: once it has received Stopped it shuts the pool down, jobs
\* closed, every worker exited, done closed, and returns Stopped, not nil
\* and not an error of the work.
StopHandledLikeError ==
    /\ (start.err = Stopped) ~>
          (/\ start.pc = "returned"
           /\ start.ret = Stopped
           /\ jobs.closed
           /\ WorkersExited
           /\ done)
    /\ [](start.err = Stopped =>
             /\ state \in {"stopping", "stopped"}
             /\ start.pc \in {"close jobs", "Wait", "close errors",
                              "close done", "return", "returned"}
             /\ start.pc = "returned" => start.ret = Stopped)

StartReturnedStopped ==
    /\ start.pc = "returned"
    /\ start.ret = Stopped
    /\ WorkersExited
    /\ done
    /\ run.pc = "returned"

\* StopWait, called by the test or by Run, has returned.
StopWaitReturned == scenario.stop /\ run.pc = "returned"

\* C35: when StopWait has returned, done is closed, every worker has exited
\* and none is inside Work; and no worker moves afterwards.
NoWorkAfterStopWait ==
    /\ [](StopWaitReturned =>
             /\ done
             /\ waitGroup = 0
             /\ WorkersExited
             /\ \A w \in Workers : ~Executing(w))
    /\ [][StopWaitReturned => worker' = worker]_vars

StopWaitReturnedAfterWork ==
    /\ StopWaitReturned
    /\ concurrency = 2
    /\ \A w \in Workers : worker[w].pc = "exited"
    /\ start.err = Stopped

\* C36: the links reported for a fetched page are all the links of the
\* page, resolved, that are internal by the run's policy, every occurrence
\* in the page's order, whether or not the link was seen before and is
\* admitted again; no external link is among them.
ReportsAllInternalLinks ==
    \A uri \in DOMAIN sitemap :
        LET resolved == absoluteLinks(uri, Page(scenario.site, uri.url).Links)
        IN /\ sitemap[uri].Links =
                 filter([l \in Elements(resolved) |-> ~External(l.url)],
                        resolved)
           /\ \A i \in 1..Len(sitemap[uri].Links) :
                 ~External(sitemap[uri].Links[i].url)

SeenLinkReported ==
    /\ scenario.site = "share"
    /\ \E uri \in DOMAIN sitemap :
          /\ uri # rootItem
          /\ Len(sitemap[uri].Links) = 1
          /\ Seen(queue, sitemap[uri].Links[1])
          /\ sitemap[uri].Links[1] \notin BagToSet(admitted)
          /\ \A w \in Workers : worker[w].next = uri => worker[w].pc = "return"

\* C37, as claimed: while the pool is running, once Start has issued the
\* initial tokens, the tokens in jobs, the workers executing the unit of
\* work (with the token a worker holds while it posts its result and the
\* one Start holds while it re-issues it) and the results not yet consumed
\* are exactly numWorkers, and at most numWorkers once the pool is
\* stopping; so neither Start's send on jobs nor a worker's send on
\* results ever finds its channel full.
TokensExactlyNWhileRunning ==
    /\ (state = "running" /\ start.pc \in {"select", "jobs"}) =>
          Tokens = concurrency
    /\ state = "stopping" => Tokens <= concurrency
    /\ start.pc = "jobs" => jobs.n < concurrency
    /\ \A w \in Workers : worker[w].pc = "results" => results.n < concurrency

\* C37, amended: a token claimed by an invocation that fails with a fatal
\* error is not returned.  The tokens are at most numWorkers at any time;
\* while the pool is running the tokens and the workers blocked in the
\* send of a fatal error are together exactly the tokens issued so far,
\* numWorkers once Start has issued the initial ones; and neither Start's
\* send on jobs nor a worker's send on results ever finds its channel full.
TokensAtMostN ==
    /\ Tokens <= concurrency
    /\ jobs.n <= concurrency
    /\ results.n <= concurrency
    /\ (state = "running" /\ start.pc \in {"select", "jobs"}) =>
          Tokens + Cardinality(AtErrors) = concurrency
    /\ (state = "running" /\ start.pc = "spawn") =>
          Tokens + Cardinality(AtErrors) = start.i
    /\ start.pc = "jobs" => jobs.n < concurrency
    /\ \A w \in Workers : worker[w].pc = "results" => results.n < concurrency

TokenLostWhileRunning ==
    /\ concurrency = 2
    /\ state = "running"
    /\ start.pc = "jobs"
    /\ Cardinality(AtErrors) = 1
    /\ Tokens = 1

\* C38: once the pool has stopped, every further StopWait call returns:
\* none sends a stop request (none reaches Stop()), none panics and none
\* blocks, so no run ends, by a panic or by having no step left, with a
\* further call still inside StopWait.
FurtherStopWaitReturns ==
    /\ \A c \in Callers : caller[c].pc # "Stop"
    /\ (\E c \in Callers : caller[c].pc # "idle") =>
           /\ panicked = "none"
           /\ ENABLED PoolNext

====
